---- MODULE Spec2Model ----
(***************************************************************************)
(* A model of lingvo/core/bn_layers.py: the masked moment estimator        *)
(* ComputeMomentsWithPadding, BatchNormLayer, BatchNormLayerNoPadding with *)
(* its AddingAccumulator sufficient statistics, and GroupNormLayer.        *)
(*                                                                         *)
(* Floating-point tensors are modelled as tensors of exact rationals       *)
(* <<n, d>> in lowest terms; d = 0 encodes the non-finite values (NaN,     *)
(* +Inf, -Inf) that IEEE arithmetic produces on division by zero.          *)
(* Axes are numbered from 0 as in the source; index tuples count from 1.   *)
(***************************************************************************)
EXTENDS Integers, Sequences, FiniteSets, TLC

(***************************************************************************)
(* Bounds of the model.                                                     *)
(***************************************************************************)
MaxBatch == 2
MaxVal == 1
MaxTrain == 2

(***************************************************************************)
(* Scalars: exact rationals with the IEEE non-finite values.                *)
(***************************************************************************)
Abs(a) == IF a < 0 THEN -a ELSE a

Sgn(a) == IF a < 0 THEN -1 ELSE IF a > 0 THEN 1 ELSE 0

RECURSIVE GCD(_, _)
GCD(a, b) == IF b = 0 THEN a ELSE GCD(b, a % b)

Reduced(n, d, g) == <<n \div g, d \div g>>

Norm(n, d) == Reduced(IF d < 0 THEN -n ELSE n, Abs(d), GCD(Abs(n), Abs(d)))

Rat(n) == <<n, 1>>

Frac(n, d) == Norm(n, d)

NaN == <<0, 0>>

Inf(s) == <<s, 0>>

IsFinite(x) == x[2] # 0

IsNaN(x) == x = NaN

RNeg(x) == <<-x[1], x[2]>>

RAddFinite(x, y, g) ==
  Norm(x[1] * (y[2] \div g) + y[1] * (x[2] \div g), x[2] * (y[2] \div g))

RAdd(x, y) ==
  IF IsFinite(x) /\ IsFinite(y) THEN RAddFinite(x, y, GCD(x[2], y[2]))
  ELSE IF IsNaN(x) \/ IsNaN(y) THEN NaN
  ELSE IF ~IsFinite(x) /\ ~IsFinite(y) THEN (IF x = y THEN x ELSE NaN)
  ELSE IF IsFinite(x) THEN y ELSE x

RSub(x, y) == RAdd(x, RNeg(y))

RMulFinite(x, y, g1, g2) ==
  Norm((x[1] \div g1) * (y[1] \div g2), (x[2] \div g2) * (y[2] \div g1))

RMul(x, y) ==
  IF IsFinite(x) /\ IsFinite(y)
  THEN RMulFinite(x, y, GCD(Abs(x[1]), y[2]), GCD(Abs(y[1]), x[2]))
  ELSE IF IsNaN(x) \/ IsNaN(y) \/ x[1] = 0 \/ y[1] = 0 THEN NaN
  ELSE Inf(Sgn(x[1]) * Sgn(y[1]))

Recip(x) ==
  IF IsNaN(x) THEN NaN
  ELSE IF ~IsFinite(x) THEN Rat(0)
  ELSE IF x[1] = 0 THEN Inf(1)
  ELSE Norm(x[2], x[1])

RDiv(x, y) == RMul(x, Recip(y))

RLess(x, y) ==
  IF IsNaN(x) \/ IsNaN(y) THEN FALSE
  ELSE IF IsFinite(x) /\ IsFinite(y) THEN x[1] * y[2] < y[1] * x[2]
  ELSE IF ~IsFinite(x) /\ ~IsFinite(y) THEN x[1] < y[1]
  ELSE IF IsFinite(x) THEN y[1] > 0 ELSE x[1] < 0

RGreater(x, y) == RLess(y, x)

RGeq(x, y) == ~IsNaN(x) /\ ~IsNaN(y) /\ ~RLess(x, y)

RMax(x, y) == IF IsNaN(x) \/ IsNaN(y) THEN NaN ELSE IF RLess(x, y) THEN y ELSE x

(***************************************************************************)
(* Tensors: a shape and the values in row-major order, with the            *)
(* broadcasting and reduction rules of the tensor library.                 *)
(***************************************************************************)
RECURSIVE Size(_)
Size(shape) == IF shape = <<>> THEN 1 ELSE Head(shape) * Size(Tail(shape))

Stride(shape, i) == Size(SubSeq(shape, i + 1, Len(shape)))

Unflatten(q, shape) ==
  [i \in 1..Len(shape) |-> (((q - 1) \div Stride(shape, i)) % shape[i]) + 1]

RECURSIVE Flatten(_, _)
Flatten(idx, shape) ==
  IF shape = <<>> THEN 1
  ELSE (idx[1] - 1) * Size(Tail(shape)) + Flatten(Tail(idx), Tail(shape))

Indices(shape) == {Unflatten(q, shape) : q \in 1..Size(shape)}

RECURSIVE Values(_, _)
Values(f, n) == IF n = 0 THEN <<>> ELSE Append(Values(f, n - 1), f[n])

Tensor(shape, f) == [shape |-> shape, val |-> Values(f, Size(shape))]

At(t, idx) == t.val[Flatten(idx, t.shape)]

Scalar(x) == [shape |-> <<>>, val |-> <<x>>]

reshape(t, shape) == [shape |-> shape, val |-> t.val]

Fill(shape, x) == Tensor(shape, [q \in 1..Size(shape) |-> x])

rank(t) == Len(t.shape)

Max2(a, b) == IF a < b THEN b ELSE a

PadLeft(s, r) == [i \in 1..r |-> IF i <= r - Len(s) THEN 1 ELSE s[i - (r - Len(s))]]

BroadcastTo(sa, sb, r) ==
  Values([i \in 1..r |-> Max2(PadLeft(sa, r)[i], PadLeft(sb, r)[i])], r)

BroadcastShape(sa, sb) == BroadcastTo(sa, sb, Max2(Len(sa), Len(sb)))

Proj(idx, s) ==
  [i \in 1..Len(s) |-> IF s[i] = 1 THEN 1 ELSE idx[i + (Len(idx) - Len(s))]]

AtB(t, idx) == At(t, Proj(idx, t.shape))

RECURSIVE BroadcastOffset(_, _, _, _, _)
BroadcastOffset(rem, s, ts, k, stride) ==
  IF k = Len(ts) THEN 0
  ELSE LET ds == s[Len(s) - k]
           dt == ts[Len(ts) - k]
       IN  (IF dt = 1 THEN 0 ELSE (rem % ds) * stride)
           + BroadcastOffset(rem \div ds, s, ts, k + 1, stride * dt)

BroadcastPos(q, s, t) ==
  IF t.shape = s THEN q ELSE 1 + BroadcastOffset(q - 1, s, t.shape, 0, 1)

(* The elementwise binary ops.  The elements of a normalised tensor are    *)
(* the symbolic values [num, rad, off] = num / sqrt(rad) + off, the square *)
(* root being irrational: "rsqrt" forms num / sqrt(rad), "offset" adds the *)
(* offset and "scale" multiplies by a weight.                              *)
Apply2(op, x, y) ==
  CASE op = "add" -> RAdd(x, y)
    [] op = "sub" -> RSub(x, y)
    [] op = "mul" -> RMul(x, y)
    [] op = "div" -> RDiv(x, y)
    [] op = "maximum" -> RMax(x, y)
    [] op = "rsqrt" -> [num |-> x, rad |-> y, off |-> Rat(0)]
    [] op = "offset" -> [num |-> x.num, rad |-> x.rad, off |-> RAdd(x.off, y)]
    [] op = "scale" -> [num |-> RMul(x.num, y), rad |-> x.rad, off |-> RMul(x.off, y)]

Map2To(op, a, b, s) ==
  Tensor(s, [q \in 1..Size(s) |-> Apply2(op, a.val[BroadcastPos(q, s, a)],
                                              b.val[BroadcastPos(q, s, b)])])

Map2(op, a, b) ==
  Map2To(op, a, b, IF a.shape = b.shape THEN a.shape ELSE BroadcastShape(a.shape, b.shape))

TAdd(a, b) == Map2("add", a, b)

TSub(a, b) == Map2("sub", a, b)

TMul(a, b) == Map2("mul", a, b)

TDiv(a, b) == Map2("div", a, b)

TMaximum(a, b) == Map2("maximum", a, b)

TReciprocal(t) == Tensor(t.shape, [q \in 1..Len(t.val) |-> Recip(t.val[q])])

assert_greater_equal_zero(t) == \A q \in 1..Len(t.val) : RGeq(t.val[q], Rat(0))

RECURSIVE SumOver(_, _)
SumOver(S, f) ==
  IF S = {} THEN Rat(0)
  ELSE LET k == CHOOSE k \in S : TRUE IN RAdd(f[k], SumOver(S \ {k}, f))

RECURSIVE SumWhere(_, _, _)
SumWhere(val, pos, j) ==
  IF val = <<>> THEN Rat(0)
  ELSE IF Head(pos) = j THEN RAdd(Head(val), SumWhere(Tail(val), Tail(pos), j))
  ELSE SumWhere(Tail(val), Tail(pos), j)

RECURSIVE ProdDims(_, _)
ProdDims(shape, axes) ==
  IF axes = {} THEN 1
  ELSE LET a == CHOOSE a \in axes : TRUE IN shape[a + 1] * ProdDims(shape, axes \ {a})

KeptAxes(r, axes) ==
  LET kept == {i \in 1..r : (i - 1) \notin axes}
      Pos(j) == CHOOSE i \in kept : Cardinality({k \in kept : k < i}) = j - 1
  IN  [j \in 1..Cardinality(kept) |-> Pos(j)]

RECURSIVE KeptDims(_, _, _)
KeptDims(shape, axes, i) ==
  IF i > Len(shape) THEN <<>>
  ELSE (IF (i - 1) \in axes THEN <<>> ELSE <<shape[i]>>) \o KeptDims(shape, axes, i + 1)

ReducedShape(shape, axes, keepdims) ==
  IF keepdims
  THEN Values([i \in 1..Len(shape) |-> IF (i - 1) \in axes THEN 1 ELSE shape[i]], Len(shape))
  ELSE KeptDims(shape, axes, 1)

OutIndexOf(k, axes, keepdims) ==
  LET kept == KeptAxes(Len(k), axes)
  IN  IF keepdims THEN [i \in 1..Len(k) |-> IF (i - 1) \in axes THEN 1 ELSE k[i]]
      ELSE [m \in 1..Len(kept) |-> k[kept[m]]]

RECURSIVE ReducedOffset(_, _, _, _, _)
ReducedOffset(rem, shape, axes, i, stride) ==
  IF i = 0 THEN 0
  ELSE IF (i - 1) \in axes
  THEN ReducedOffset(rem \div shape[i], shape, axes, i - 1, stride)
  ELSE (rem % shape[i]) * stride
       + ReducedOffset(rem \div shape[i], shape, axes, i - 1, stride * shape[i])

ReducedPositions(shape, axes) ==
  Values([q \in 1..Size(shape) |-> 1 + ReducedOffset(q - 1, shape, axes, Len(shape), 1)],
         Size(shape))

ReduceTo(t, oshape, pos) == Tensor(oshape, [j \in 1..Size(oshape) |-> SumWhere(t.val, pos, j)])

reduce_sum(t, axes, keepdims) ==
  ReduceTo(t, ReducedShape(t.shape, axes, keepdims), ReducedPositions(t.shape, axes))

(***************************************************************************)
(* tf.tpu.cross_replica_sum: the sum of the local tensor and of the        *)
(* tensors the other participating replicas contribute.                    *)
(***************************************************************************)
RECURSIVE cross_replica_sum(_, _)
cross_replica_sum(local, others) ==
  IF others = <<>> THEN local
  ELSE cross_replica_sum(TAdd(local, Head(others)), Tail(others))

(***************************************************************************)
(* ComputeMomentsWithPadding.  replicas holds the (inputs, padding) of the *)
(* other replicas taking part in the cross-replica sums; cross is          *)
(* py_utils.use_tpu() and enable_cross_replica_sum_on_tpu.  The stages of  *)
(* the function take the values computed so far as arguments:              *)
(* ComputeMomentsWithPadding computes sum_v and count_v, Moments_Mean the  *)
(* mean, Moments_SumVV sum_vv and Moments_Variance the returned pair.      *)
(***************************************************************************)
MaskOf(padding) == TSub(Scalar(Rat(1)), padding)

mask_multiplier_Unscaled(inputs, mask, reduce_over_dims) == Rat(1)

mask_multiplier(inputs, mask, reduce_over_dims) ==
  Frac(ProdDims(inputs.shape, reduce_over_dims), ProdDims(mask.shape, reduce_over_dims))

FloorCount_Unfloored(count_v) == count_v

FloorCount(count_v) == TMaximum(count_v, Scalar(Rat(1)))

LocalSumAndCount(inputs, mask, reduce_over_dims, keepdims) ==
  [sum_v |-> reduce_sum(TMul(inputs, mask), reduce_over_dims, keepdims),
   count_v |-> TMul(reduce_sum(mask, reduce_over_dims, keepdims),
                    Scalar(mask_multiplier(inputs, mask, reduce_over_dims)))]

LocalSumVV(dev, mask, reduce_over_dims, keepdims) ==
  reduce_sum(TMul(TMul(dev, dev), mask), reduce_over_dims, keepdims)

FieldOf(s, f) == Values([r \in 1..Len(s) |-> s[r][f]], Len(s))

ReplicaSumAndCount(replicas, reduce_over_dims, keepdims) ==
  Values([r \in 1..Len(replicas) |->
            LocalSumAndCount(replicas[r].inputs, MaskOf(replicas[r].padding),
                             reduce_over_dims, keepdims)],
         Len(replicas))

ReplicaSumVV(replicas, mean, reduce_over_dims, keepdims) ==
  Values([r \in 1..Len(replicas) |->
            LocalSumVV(TSub(replicas[r].inputs, mean), MaskOf(replicas[r].padding),
                       reduce_over_dims, keepdims)],
         Len(replicas))

PooledSumAndCount(local, others) ==
  [sum_v |-> cross_replica_sum(local.sum_v, FieldOf(others, "sum_v")),
   count_v |-> FloorCount(cross_replica_sum(local.count_v, FieldOf(others, "count_v")))]

Moments_Variance(inputs, mask, count_v, mean, sum_vv) ==
  IF rank(inputs) # rank(mask) THEN [err |-> "assert_equal(rank)"]
  ELSE IF ~assert_greater_equal_zero(mask)
  THEN [err |-> "assert_greater_equal(mask)"]
  ELSE IF ~assert_greater_equal_zero(sum_vv)
  THEN [err |-> "assert_greater_equal(sum_vv)"]
  ELSE [err |-> "", mean |-> mean, variance |-> TDiv(sum_vv, count_v),
        count_v |-> count_v]

Moments_SumVV(inputs, padding, reduce_over_dims, cross, keepdims, replicas, count_v, mean) ==
  Moments_Variance(
    inputs, MaskOf(padding), count_v, mean,
    cross_replica_sum(
      LocalSumVV(TSub(inputs, mean), MaskOf(padding), reduce_over_dims, keepdims),
      IF cross THEN ReplicaSumVV(replicas, mean, reduce_over_dims, keepdims) ELSE <<>>))

Moments_Mean(inputs, padding, reduce_over_dims, cross, keepdims, replicas, sums) ==
  Moments_SumVV(inputs, padding, reduce_over_dims, cross, keepdims, replicas,
                sums.count_v, TDiv(sums.sum_v, sums.count_v))

ComputeMomentsWithPadding(inputs, padding, reduce_over_dims, cross, keepdims, replicas) ==
  Moments_Mean(
    inputs, padding, reduce_over_dims, cross, keepdims, replicas,
    PooledSumAndCount(
      LocalSumAndCount(inputs, MaskOf(padding), reduce_over_dims, keepdims),
      IF cross THEN ReplicaSumAndCount(replicas, reduce_over_dims, keepdims) ELSE <<>>))

(***************************************************************************)
(* tf.nn.sufficient_statistics and tf.nn.normalize_moments (shift = None). *)
(***************************************************************************)
sufficient_statistics(x, axes, keepdims) ==
  [counts |-> Scalar(Rat(ProdDims(x.shape, axes))),
   mean_ss |-> reduce_sum(x, axes, keepdims),
   variance_ss |-> reduce_sum(TMul(x, x), axes, keepdims)]

normalize_moments_Uncentered(counts, mean_ss, variance_ss) ==
  [mean |-> TMul(mean_ss, TReciprocal(counts)),
   variance |-> TMul(variance_ss, TReciprocal(counts))]

CenteredMoments(mean, mean_of_squares) ==
  [mean |-> mean, variance |-> TSub(mean_of_squares, TMul(mean, mean))]

normalize_moments(counts, mean_ss, variance_ss) ==
  CenteredMoments(TMul(mean_ss, TReciprocal(counts)), TMul(variance_ss, TReciprocal(counts)))

(***************************************************************************)
(* tf.nn.batch_normalization: (x - mean) * scale / sqrt(variance +         *)
(* epsilon) + offset, in the symbolic form num / sqrt(rad) + off.          *)
(***************************************************************************)
Normalized(num, rad, off) == Map2("offset", Map2("rsqrt", num, rad), off)

batch_normalization(x, mean, variance, offset, scale, epsilon) ==
  Normalized(TMul(TSub(x, mean), scale), TAdd(variance, Scalar(epsilon)), offset)

fused_batch_norm(x, scale, offset, mean, variance, epsilon) ==
  batch_normalization(x, mean, variance, offset, scale, epsilon)

ScaleOutput_Identity(out, w) == out

ScaleOutput(out, w) == Map2("scale", out, w)

IsZeroOutput(e) == e.num = Rat(0) /\ e.off = Rat(0)

CheckNumerics(t) == \A q \in 1..Len(t.val) : IsFinite(t.val[q])

(***************************************************************************)
(* State.  layer names the component under study, p its params and env the *)
(* runtime it runs on; beta, gamma, moving_mean and moving_variance are    *)
(* the layer variables; counts, mean_ss and variance_ss are the values of  *)
(* the three accumulators; call holds the last call (operation, arguments, *)
(* result).  hist and ntrain are history variables: the training calls     *)
(* made (since the last commit for the no-padding layer) and their number. *)
(***************************************************************************)
VARIABLES layer, p, env, beta, gamma, moving_mean, moving_variance,
          counts, mean_ss, variance_ss, hist, ntrain, call

vars == <<layer, p, env, beta, gamma, moving_mean, moving_variance,
          counts, mean_ss, variance_ss, hist, ntrain, call>>

config == <<layer, p, env>>

weights == <<beta, gamma>>

moving == <<moving_mean, moving_variance>>

accumulators == <<counts, mean_ss, variance_ss>>

NoCall == [op |-> "none"]

Absent == Scalar(Rat(0))

NoEnv == [use_tpu |-> FALSE]

(***************************************************************************)
(* Input tensors: the first axis selects one of the freely chosen values   *)
(* v, the remaining axes vary the value deterministically so that rows,    *)
(* positions and features all differ.                                      *)
(***************************************************************************)
RECURSIVE SumSeq(_)
SumSeq(s) == IF s = <<>> THEN 0 ELSE Head(s) + SumSeq(Tail(s))

PatternValue(i, v) ==
  LET c == i[Len(i)]
  IN  Rat(v[i[1]] * c + (c - 1) + (SumSeq(i) - i[1] - c - (Len(i) - 2)))

Pattern(shape, v) ==
  Tensor(shape, [q \in 1..Size(shape) |-> PatternValue(Unflatten(q, shape), v)])

PaddingTensor(shape, f) == Tensor(shape, [q \in 1..Size(shape) |-> Rat(f[q])])

(***************************************************************************)
(* The masked moment estimator as a pure function of drawn arguments.      *)
(***************************************************************************)
MaskShapes(s) == {[i \in 1..Len(s) |-> IF i \in ones THEN 1 ELSE s[i]] : ones \in SUBSET (1..Len(s))}

OtherReplicas(cross, inputs, padding) ==
  IF cross
  THEN <<[inputs |-> TAdd(inputs, Scalar(Rat(1))), padding |-> padding]>>
  ELSE <<>>

MomentsCall(x, pad, axes, kd, cross) ==
  LET reps == OtherReplicas(cross, x, pad)
  IN  [op |-> "ComputeMomentsWithPadding",
       args |-> [inputs |-> x, padding |-> pad, reduce_over_dims |-> axes,
                 keepdims |-> kd, cross |-> cross, replicas |-> reps],
       ret |-> ComputeMomentsWithPadding(x, pad, axes, cross, kd, reps)]

InitMoments ==
  /\ layer = "ComputeMomentsWithPadding"
  /\ p = [name |-> "moments"]
  /\ env = NoEnv
  /\ beta = Absent /\ gamma = Absent
  /\ moving_mean = Absent /\ moving_variance = Absent
  /\ counts = Absent /\ mean_ss = Absent /\ variance_ss = Absent
  /\ hist = <<>> /\ ntrain = 0
  /\ call = NoCall

NonDecreasing(v) == \A i \in 1..(Len(v) - 1) : v[i] <= v[i + 1]

CallComputeMoments ==
  /\ layer = "ComputeMomentsWithPadding"
  /\ call = NoCall
  /\ \E r \in 1..MaxBatch, c \in 1..2, axes \in {{0}, {1}, {0, 1}} :
       \E ms \in MaskShapes(<<r, c>>), v \in {u \in [1..r -> 0..MaxVal] : NonDecreasing(u)} :
         \E f \in [1..Size(ms) -> {0, 1}], kd \in {b \in BOOLEAN : b \/ axes = {0}},
            cross \in BOOLEAN :
           call' = MomentsCall(Pattern(<<r, c>>, v), PaddingTensor(ms, f), axes, kd, cross)
  /\ UNCHANGED <<config, weights, moving, accumulators, hist, ntrain>>

NextMoments == CallComputeMoments

SpecMoments == InitMoments /\ [][NextMoments]_vars

(***************************************************************************)
(* The layer variables and the weights handed to FProp.  CreateVariable    *)
(* initialises beta and gamma to 0, moving_mean to 0 and moving_variance   *)
(* to 1; theta.gamma is 1 + gamma unless gamma_zero_init.  The trainer     *)
(* (outside this file) assigns trained values to beta and gamma.           *)
(***************************************************************************)
Zeros(dim) == Fill(<<dim>>, Rat(0))

Ones(dim) == Fill(<<dim>>, Rat(1))

TrainedBeta(dim) == Tensor(<<dim>>, [c \in 1..dim |-> Rat(c)])

TrainedGamma(dim) == Tensor(<<dim>>, [c \in 1..dim |-> IF c % 2 = 1 THEN Rat(1) ELSE Rat(-1)])

HasAffine == IF layer = "BatchNormLayer" THEN ~p.use_moving_avg_in_training ELSE TRUE

ThetaGamma_Direct(zero_init, g) == g

ThetaGamma(zero_init, g) == IF zero_init THEN g ELSE TAdd(Scalar(Rat(1)), g)

Theta_InitialMoving ==
  [beta |-> beta,
   gamma |-> ThetaGamma(layer = "BatchNormLayer" /\ p.gamma_zero_init, gamma),
   moving_mean |-> Fill(moving_mean.shape, Rat(0)),
   moving_variance |-> Fill(moving_variance.shape, Rat(1))]

Theta ==
  [beta |-> beta,
   gamma |-> ThetaGamma(layer = "BatchNormLayer" /\ p.gamma_zero_init, gamma),
   moving_mean |-> moving_mean,
   moving_variance |-> moving_variance]

AssignWeights ==
  /\ layer \in {"BatchNormLayer", "BatchNormLayerNoPadding", "GroupNormLayer"}
  /\ HasAffine
  /\ beta = Fill(beta.shape, Rat(0)) /\ gamma = Fill(gamma.shape, Rat(0))
  /\ beta' = reshape(TrainedBeta(p.dim), beta.shape)
  /\ gamma' = reshape(TrainedGamma(p.dim), gamma.shape)
  /\ call' = [op |-> "AssignWeights"]
  /\ UNCHANGED <<config, moving, accumulators, hist, ntrain>>

(***************************************************************************)
(* py_utils.UpdateBatchNormVars: the exponential-decay update of a moving  *)
(* statistic towards the batch statistic.                                  *)
(***************************************************************************)
UpdateBatchNormVars(batch_norm_var, batch_norm_stats, decay) ==
  TSub(batch_norm_var,
       TMul(TSub(batch_norm_var, batch_norm_stats), Scalar(RSub(Rat(1), decay))))

(***************************************************************************)
(* BatchNormLayer.                                                         *)
(***************************************************************************)
Epsilon == Frac(1, 1000)

BNParams ==
  { [dim |-> 2, decay |-> Frac(9, 10), enable_cross_replica_sum_on_tpu |-> TRUE,
     use_moving_avg_in_training |-> c[1], gamma_zero_init |-> c[2],
     set_padded_output_to_zero |-> c[3], use_fused_batch_norm_for_eval |-> c[4]] :
    c \in {<<FALSE, FALSE, TRUE, FALSE>>, <<TRUE, FALSE, TRUE, FALSE>>,
           <<FALSE, TRUE, FALSE, TRUE>>} }

FromRows(rows) ==
  LET cols == Len(rows[1])
  IN  Tensor(<<Len(rows), cols>>,
             [q \in 1..(Len(rows) * cols) |->
                Rat(rows[((q - 1) \div cols) + 1][((q - 1) % cols) + 1])])

NoPaddings == [given |-> FALSE, t |-> Absent]

Paddings(rows) == [given |-> TRUE, t |-> FromRows(rows)]

BNInputs ==
  { [inputs |-> FromRows(<<<<3, 1>>>>), paddings |-> NoPaddings],
    [inputs |-> FromRows(<<<<1, 2>>, <<5, 6>>>>), paddings |-> Paddings(<<<<0>>, <<0>>>>)],
    [inputs |-> FromRows(<<<<1, 2>>, <<5, 6>>>>), paddings |-> Paddings(<<<<0>>, <<1>>>>)],
    [inputs |-> FromRows(<<<<2, 0>>, <<4, 3>>, <<0, 6>>>>),
     paddings |-> Paddings(<<<<1>>, <<0>>, <<0>>>>)] }

_GetDefaultPaddings(inputs) ==
  Fill([i \in 1..rank(inputs) |-> IF i = rank(inputs) THEN 1 ELSE inputs.shape[i]], Rat(0))

LeadingAxes(t) == 0..(rank(t) - 2)

(* The statistic used for normalisation: the stored moving statistic in    *)
(* eval mode, the batch statistic in training, or with                     *)
(* use_moving_avg_in_training a read of the moving statistic.  That read   *)
(* is ordered after the batch moments only, not after the update of the    *)
(* variable, so it sees the updated value (read_updated) or the stored     *)
(* one.                                                                    *)
NormStatistic_Stored(do_eval, batch, stored, updated, read_updated) == stored

NormStatistic(do_eval, batch, stored, updated, read_updated) ==
  IF do_eval THEN stored
  ELSE IF p.use_moving_avg_in_training THEN (IF read_updated THEN updated ELSE stored)
  ELSE batch

(* ComputeAndUpdateMoments: the moments used for normalisation, beta and   *)
(* gamma, and the new values of the moving statistics.  MovingMoments is   *)
(* the eval branch, BatchMoments the training branch from the batch        *)
(* moments cm on, UpdatedMoments the same from the updated moving          *)
(* statistics on, and CheckedMoments the numerics check and the choice of  *)
(* beta and gamma.                                                         *)
CheckedMoments(theta, norm_mean, norm_variance, batch, new_mean, new_variance) ==
  [err |-> IF CheckNumerics(norm_mean) /\ CheckNumerics(norm_variance)
           THEN "" ELSE "CheckNumerics",
   norm_mean |-> norm_mean,
   norm_variance |-> norm_variance,
   beta |-> IF p.use_moving_avg_in_training THEN Scalar(Rat(0)) ELSE theta.beta,
   gamma |-> IF p.use_moving_avg_in_training THEN Scalar(Rat(1)) ELSE theta.gamma,
   batch |-> batch,
   moving_mean |-> new_mean,
   moving_variance |-> new_variance]

MovingMoments(theta, read_updated) ==
  CheckedMoments(
    theta,
    NormStatistic(TRUE, Absent, moving_mean, moving_mean, read_updated),
    NormStatistic(TRUE, Absent, moving_variance, moving_variance, read_updated),
    <<>>, moving_mean, moving_variance)

UpdatedMoments(theta, read_updated, cm, new_mean, new_variance) ==
  CheckedMoments(
    theta,
    NormStatistic(FALSE, cm.mean, moving_mean, new_mean, read_updated),
    NormStatistic(FALSE, cm.variance, moving_variance, new_variance, read_updated),
    <<[mean |-> cm.mean, variance |-> cm.variance]>>, new_mean, new_variance)

BatchMoments(theta, read_updated, cm) ==
  IF cm.err # "" THEN [err |-> cm.err]
  ELSE UpdatedMoments(theta, read_updated, cm,
                      UpdateBatchNormVars(moving_mean, cm.mean, p.decay),
                      UpdateBatchNormVars(moving_variance, cm.variance, p.decay))

ComputeAndUpdateMoments(do_eval, theta, inputs, paddings, read_updated) ==
  IF paddings.shape[rank(paddings)] # 1
  THEN [err |-> "assert_shape_match(paddings)"]
  ELSE IF do_eval THEN MovingMoments(theta, read_updated)
  ELSE BatchMoments(
         theta, read_updated,
         ComputeMomentsWithPadding(
           inputs, paddings, LeadingAxes(paddings),
           env.use_tpu /\ p.enable_cross_replica_sum_on_tpu, FALSE,
           OtherReplicas(env.use_tpu /\ p.enable_cross_replica_sum_on_tpu, inputs, paddings)))

(* FProp: PaddingsOrDefault is the paddings argument or its default,       *)
(* NormalizedOutput the assertions on the moments and the normalisation,   *)
(* PaddedOutputToZero the final zeroing of the padded positions.           *)
PaddingsOrDefault(given, inputs) ==
  IF given.given THEN given.t ELSE _GetDefaultPaddings(inputs)

PaddedOutputToZero(m, paddings, bn_output) ==
  [err |-> "", m |-> m, paddings |-> paddings,
   bn_output |-> IF p.set_padded_output_to_zero
                 THEN ScaleOutput(bn_output, MaskOf(paddings))
                 ELSE bn_output]

NormalizedOutput(do_eval, inputs, paddings, m) ==
  IF m.err # "" THEN [err |-> m.err, m |-> m]
  ELSE IF ~assert_greater_equal_zero(m.norm_variance)
  THEN [err |-> "assert_greater_equal(norm_variance)", m |-> m]
  ELSE IF m.norm_mean.shape # <<inputs.shape[rank(inputs)]>>
          \/ m.norm_variance.shape # <<inputs.shape[rank(inputs)]>>
  THEN [err |-> "assert_shape_match", m |-> m]
  ELSE PaddedOutputToZero(
         m, paddings,
         IF p.use_fused_batch_norm_for_eval /\ do_eval
         THEN fused_batch_norm(inputs, m.gamma, m.beta, m.norm_mean, m.norm_variance, Epsilon)
         ELSE batch_normalization(inputs, m.norm_mean, m.norm_variance, m.beta, m.gamma,
                                  Epsilon))

BatchNormLayer_FProp_Result(do_eval, theta, inputs, paddings, read_updated) ==
  NormalizedOutput(do_eval, inputs, paddings,
                   ComputeAndUpdateMoments(do_eval, theta, inputs, paddings, read_updated))

BatchNormLayer_FProp_Effect(do_eval, inputs, r) ==
  /\ r.err = ""
  /\ moving_mean' = r.m.moving_mean
  /\ moving_variance' = r.m.moving_variance
  /\ hist' = hist \o r.m.batch
  /\ ntrain' = IF do_eval THEN ntrain ELSE ntrain + 1
  /\ call' = [op |-> "FProp", do_eval |-> do_eval,
              args |-> [inputs |-> inputs, paddings |-> r.paddings],
              ret |-> [bn_output |-> r.bn_output, norm_mean |-> r.m.norm_mean,
                       norm_variance |-> r.m.norm_variance,
                       beta |-> r.m.beta, gamma |-> r.m.gamma]]

BatchNormLayer_FProp ==
  /\ layer = "BatchNormLayer"
  /\ \E do_eval \in BOOLEAN, a \in BNInputs, read_updated \in BOOLEAN :
       /\ do_eval \/ ntrain < MaxTrain
       /\ read_updated \/ (~do_eval /\ p.use_moving_avg_in_training)
       /\ BatchNormLayer_FProp_Effect(
            do_eval, a.inputs,
            BatchNormLayer_FProp_Result(do_eval, Theta, a.inputs,
                                        PaddingsOrDefault(a.paddings, a.inputs), read_updated))
  /\ UNCHANGED <<config, weights, accumulators>>

InitBatchNormLayer ==
  /\ layer = "BatchNormLayer"
  /\ p \in BNParams
  /\ env \in {[use_tpu |-> FALSE], [use_tpu |-> TRUE]}
  /\ env.use_tpu => p.set_padded_output_to_zero /\ ~p.use_moving_avg_in_training
  /\ beta = Zeros(p.dim) /\ gamma = Zeros(p.dim)
  /\ moving_mean = Zeros(p.dim) /\ moving_variance = Ones(p.dim)
  /\ counts = Absent /\ mean_ss = Absent /\ variance_ss = Absent
  /\ hist = <<>> /\ ntrain = 0
  /\ call = NoCall

NextBatchNormLayer == BatchNormLayer_FProp \/ AssignWeights

SpecBatchNormLayer == InitBatchNormLayer /\ [][NextBatchNormLayer]_vars

(***************************************************************************)
(* BatchNormLayerNoPadding.  The accumulators counts, mean_ss and          *)
(* variance_ss hold the sufficient statistics of the micro-batches of the  *)
(* current training step.  env.number_of_shards is the shard count of the  *)
(* TPU context (known = FALSE is None) and env.num_replicas the number of  *)
(* replicas running the step; the other replicas see the local input       *)
(* shifted by their distance.                                              *)
(***************************************************************************)
MaxShards == 3

NumReplicasUnknown == 3

DefaultValue(shape) == Fill(shape, Rat(0))

Update_Overwrite(acc, value) == value

Update(acc, value) == TAdd(acc, value)

TensorOf(shape, ints) == Tensor(shape, [q \in 1..Len(ints) |-> Rat(ints[q])])

NPParams ==
  { [dim |-> 2, decay |-> Frac(9, 10), epsilon |-> Frac(1, 1000), bn_group_size |-> g] :
    g \in 1..2 }

NPEnvs ==
  {[use_tpu |-> FALSE, number_of_shards |-> [known |-> FALSE, n |-> 0], num_replicas |-> 1]}
  \cup {[use_tpu |-> TRUE, number_of_shards |-> [known |-> FALSE, n |-> 0],
         num_replicas |-> NumReplicasUnknown]}
  \cup {[use_tpu |-> TRUE, number_of_shards |-> [known |-> TRUE, n |-> k],
         num_replicas |-> k] : k \in 1..MaxShards}

NPInputs ==
  { TensorOf(<<1, 1, 1, 2>>, <<1, 2>>),
    TensorOf(<<1, 2, 1, 2>>, <<3, 0, 5, 4>>) }

ReplicaInputs(inputs, r) == TAdd(inputs, Scalar(Rat(r)))

GroupAssignment(num_shards, group_size) ==
  [g \in 1..(num_shards \div group_size) |->
     [i \in 1..group_size |-> (g - 1) * group_size + (i - 1)]]

(* _Moments: acc is the value of the accumulators after the three Update   *)
(* calls, which precede the checks of the shard count.  PeerStatistics are *)
(* the sufficient statistics of the other replicas in the cross-replica    *)
(* sums; Moments_Pooled is the function from the local statistics on.      *)
NumPeers(group_size) ==
  IF env.number_of_shards.known THEN group_size - 1 ELSE env.num_replicas - 1

PeerStatistics(inputs, npeers) ==
  Values([r \in 1..npeers |->
            sufficient_statistics(ReplicaInputs(inputs, r), {0, 1, 2}, FALSE)],
         npeers)

PooledCounts(ss_counts, group_size) ==
  IF env.use_tpu /\ group_size > 1 /\ env.number_of_shards.known
  THEN TMul(ss_counts, Scalar(Rat(group_size)))
  ELSE ss_counts

Moments_Result(group_size, acc, cnt, nm) ==
  IF env.use_tpu /\ group_size > 1 /\ env.number_of_shards.known
     /\ env.number_of_shards.n < group_size
  THEN [err |-> "ValueError: shards less than bn_group_size", acc |-> acc]
  ELSE IF env.use_tpu /\ group_size > 1 /\ env.number_of_shards.known
          /\ env.number_of_shards.n % group_size # 0
  THEN [err |-> "ValueError: shards not divisible by bn_group_size", acc |-> acc]
  ELSE [err |-> "", acc |-> acc, mean |-> nm.mean, variance |-> nm.variance,
        counts |-> cnt,
        summed |-> IF env.use_tpu /\ group_size > 1 THEN NumPeers(group_size) + 1 ELSE 1,
        group_assignment |-> IF env.use_tpu /\ group_size > 1 /\ env.number_of_shards.known
                             THEN GroupAssignment(env.number_of_shards.n, group_size)
                             ELSE <<>>]

Moments_Pooled(group_size, ss, peers) ==
  Moments_Result(
    group_size,
    [counts |-> Update(counts, ss.counts),
     mean_ss |-> Update(mean_ss, ss.mean_ss),
     variance_ss |-> Update(variance_ss, ss.variance_ss)],
    PooledCounts(ss.counts, group_size),
    normalize_moments(PooledCounts(ss.counts, group_size),
                      cross_replica_sum(ss.mean_ss, FieldOf(peers, "mean_ss")),
                      cross_replica_sum(ss.variance_ss, FieldOf(peers, "variance_ss"))))

_Moments(inputs, group_size) ==
  Moments_Pooled(
    group_size,
    sufficient_statistics(inputs, {0, 1, 2}, FALSE),
    IF env.use_tpu /\ group_size > 1
    THEN PeerStatistics(inputs, NumPeers(group_size))
    ELSE <<>>)

TrainingOutput(theta, inputs, m) ==
  IF m.err # "" THEN [err |-> m.err, acc |-> m.acc]
  ELSE IF ~(CheckNumerics(m.mean) /\ CheckNumerics(m.variance))
  THEN [err |-> "CheckNumerics", acc |-> m.acc]
  ELSE [err |-> "", acc |-> m.acc, m |-> m,
        outputs |-> batch_normalization(inputs, m.mean, m.variance, theta.beta,
                                        theta.gamma, p.epsilon)]

BatchNormLayerNoPadding_FProp_Result(do_eval, theta, inputs) ==
  IF <<inputs.shape[rank(inputs)]>> # theta.beta.shape
  THEN [err |-> "assert_shape_match",
        acc |-> [counts |-> counts, mean_ss |-> mean_ss, variance_ss |-> variance_ss]]
  ELSE IF do_eval
  THEN [err |-> "",
        acc |-> [counts |-> counts, mean_ss |-> mean_ss, variance_ss |-> variance_ss],
        m |-> [err |-> ""],
        outputs |-> batch_normalization(inputs, theta.moving_mean, theta.moving_variance,
                                        theta.beta, theta.gamma, p.epsilon)]
  ELSE TrainingOutput(theta, inputs, _Moments(inputs, p.bn_group_size))

IsValueError(err) == err \in {"ValueError: shards less than bn_group_size",
                              "ValueError: shards not divisible by bn_group_size"}

BatchNormLayerNoPadding_FProp_Effect(do_eval, inputs, r) ==
  /\ r.err = "" \/ IsValueError(r.err)
  /\ counts' = r.acc.counts
  /\ mean_ss' = r.acc.mean_ss
  /\ variance_ss' = r.acc.variance_ss
  /\ hist' = IF do_eval THEN hist ELSE Append(hist, inputs)
  /\ ntrain' = IF do_eval THEN ntrain ELSE ntrain + 1
  /\ call' = IF r.err = ""
             THEN [op |-> "FProp", do_eval |-> do_eval, err |-> "",
                   args |-> [inputs |-> inputs], m |-> r.m, ret |-> r.outputs]
             ELSE [op |-> "FProp", do_eval |-> do_eval, err |-> r.err,
                   args |-> [inputs |-> inputs]]

BatchNormLayerNoPadding_FProp ==
  /\ layer = "BatchNormLayerNoPadding"
  /\ \E do_eval \in BOOLEAN, inputs \in NPInputs :
       /\ do_eval \/ ntrain < MaxTrain
       /\ BatchNormLayerNoPadding_FProp_Effect(
            do_eval, inputs, BatchNormLayerNoPadding_FProp_Result(do_eval, Theta, inputs))
  /\ UNCHANGED <<config, weights, moving>>

(* tf.where with a scalar condition selects one of the two tensors.        *)
Where_Unguarded(cond, x, y) == x

Where(cond, x, y) == IF cond THEN x ELSE y

CommitMoments(committed, nm, decay) ==
  [moving_mean |->
     TSub(moving_mean, Where(committed, TMul(TSub(moving_mean, nm.mean), decay),
                             Fill(moving_mean.shape, Rat(0)))),
   moving_variance |->
     TSub(moving_variance, Where(committed, TMul(TSub(moving_variance, nm.variance), decay),
                                 Fill(moving_variance.shape, Rat(0)))),
   mean |-> nm.mean, variance |-> nm.variance]

PostTrainingStepUpdate_Result(c, m_ss, v_ss) ==
  CommitMoments(RGreater(Head(c.val), Frac(1, 2)), normalize_moments(c, m_ss, v_ss),
                Scalar(RSub(Rat(1), p.decay)))

PostTrainingStepUpdate_Effect(r) ==
  /\ moving_mean' = r.moving_mean
  /\ moving_variance' = r.moving_variance
  /\ counts' = DefaultValue(counts.shape)
  /\ mean_ss' = DefaultValue(mean_ss.shape)
  /\ variance_ss' = DefaultValue(variance_ss.shape)
  /\ hist' = <<>>
  /\ call' = [op |-> "PostTrainingStepUpdate",
              args |-> [counts |-> counts, mean_ss |-> mean_ss, variance_ss |-> variance_ss],
              mean |-> r.mean, variance |-> r.variance]

PostTrainingStepUpdate ==
  /\ layer = "BatchNormLayerNoPadding"
  /\ PostTrainingStepUpdate_Effect(PostTrainingStepUpdate_Result(counts, mean_ss, variance_ss))
  /\ UNCHANGED <<config, weights, ntrain>>

InitBatchNormLayerNoPadding ==
  /\ layer = "BatchNormLayerNoPadding"
  /\ p \in NPParams
  /\ env \in NPEnvs
  /\ beta = Zeros(p.dim) /\ gamma = Zeros(p.dim)
  /\ moving_mean = Zeros(p.dim) /\ moving_variance = Ones(p.dim)
  /\ counts = DefaultValue(<<>>)
  /\ mean_ss = DefaultValue(<<p.dim>>)
  /\ variance_ss = DefaultValue(<<p.dim>>)
  /\ hist = <<>> /\ ntrain = 0
  /\ call = NoCall

NextBatchNormLayerNoPadding ==
  BatchNormLayerNoPadding_FProp \/ PostTrainingStepUpdate \/ AssignWeights

SpecBatchNormLayerNoPadding == InitBatchNormLayerNoPadding /\ [][NextBatchNormLayerNoPadding]_vars

(***************************************************************************)
(* Both batch normalisation layers.                                        *)
(***************************************************************************)
InitBatchNorm == InitBatchNormLayer \/ InitBatchNormLayerNoPadding

NextBatchNorm ==
  \/ BatchNormLayer_FProp
  \/ BatchNormLayerNoPadding_FProp
  \/ PostTrainingStepUpdate
  \/ AssignWeights

SpecBatchNorm == InitBatchNorm /\ [][NextBatchNorm]_vars

(***************************************************************************)
(* GroupNormLayer.  The constructor accepts the params that pass its       *)
(* assertions; FProp derives the partition of the channels into groups,    *)
(* reshapes the input to [n, h, w, num_groups, group_size] and normalises  *)
(* over the axes 1, 2 and 4.                                               *)
(***************************************************************************)
MaxDim == 4

GroupNormLayer_init_Accepts(q) ==
  /\ q.num_groups > 0
  /\ q.min_group_size > 0
  /\ (q.dim >= q.num_groups) => (q.dim % q.num_groups = 0)

GNParams ==
  {q \in [dim : 1..MaxDim, num_groups : 0..MaxDim, min_group_size : 0..MaxDim] :
     GroupNormLayer_init_Accepts(q)}

GroupPartition(dim, num_groups, min_group_size) ==
  LET group_size == dim \div num_groups
      min_size == IF dim > min_group_size THEN min_group_size ELSE dim
  IN  IF group_size <= min_size
      THEN [group_size |-> min_size, num_groups |-> dim \div min_size]
      ELSE [group_size |-> group_size, num_groups |-> num_groups]

AddOffset(out, b) == Map2("offset", out, b)

GNInputs(dim) == {Pattern(<<2, 2, 1, dim>>, <<0, 2>>)}

GNPaddings ==
  { NoPaddings,
    Paddings(<<<<0, 0>>, <<0, 0>>>>),
    Paddings(<<<<0, 1>>, <<0, 0>>>>),
    Paddings(<<<<1, 1>>, <<0, 0>>>>) }

GroupedInputs(inputs, part) ==
  reshape(inputs, <<inputs.shape[1], inputs.shape[2], inputs.shape[3],
                    part.num_groups, part.group_size>>)

MomentsOfStatistics(ss) ==
  [err |-> ""] @@ normalize_moments(ss.counts, ss.mean_ss, ss.variance_ss)

GroupMoments(x, paddings) ==
  IF paddings.given
  THEN ComputeMomentsWithPadding(x, reshape(paddings.t, <<x.shape[1], x.shape[2], 1, 1, 1>>),
                                 {1, 2, 4}, FALSE, TRUE, <<>>)
  ELSE MomentsOfStatistics(sufficient_statistics(x, {1, 2, 4}, TRUE))

GroupNormalized(theta, inputs, part, x, m) ==
  IF m.err # "" THEN [err |-> m.err, part |-> part]
  ELSE IF ~(CheckNumerics(m.mean) /\ CheckNumerics(m.variance))
  THEN [err |-> "CheckNumerics", part |-> part]
  ELSE IF ~assert_greater_equal_zero(m.variance)
  THEN [err |-> "assert_greater_equal(norm_variance)", part |-> part]
  ELSE IF m.mean.shape # <<x.shape[1], 1, 1, part.num_groups, 1>>
          \/ m.variance.shape # <<x.shape[1], 1, 1, part.num_groups, 1>>
  THEN [err |-> "assert_shape_match", part |-> part]
  ELSE [err |-> "", part |-> part, norm_mean |-> m.mean, norm_variance |-> m.variance,
        gn_output |->
          AddOffset(
            ScaleOutput(
              reshape(Normalized(TSub(x, m.mean), TAdd(m.variance, Scalar(Epsilon)),
                                 Scalar(Rat(0))),
                      inputs.shape),
              theta.gamma),
            theta.beta)]

GroupReshaped(theta, inputs, paddings, part) ==
  IF inputs.shape[1] * inputs.shape[2] * inputs.shape[3] * part.num_groups * part.group_size
       # Len(inputs.val)
  THEN [err |-> "reshape", part |-> part]
  ELSE GroupNormalized(theta, inputs, part, GroupedInputs(inputs, part),
                       GroupMoments(GroupedInputs(inputs, part), paddings))

GroupNormLayer_FProp_Result(theta, inputs, paddings) ==
  GroupReshaped(theta, inputs, paddings,
                GroupPartition(p.dim, p.num_groups, p.min_group_size))

GroupNormLayer_FProp_Effect(inputs, paddings, r) ==
  call' = IF r.err = ""
          THEN [op |-> "FProp", err |-> "", args |-> [inputs |-> inputs, paddings |-> paddings],
                num_groups |-> r.part.num_groups, group_size |-> r.part.group_size,
                norm_mean |-> r.norm_mean, norm_variance |-> r.norm_variance,
                ret |-> r.gn_output]
          ELSE [op |-> "FProp", err |-> r.err, args |-> [inputs |-> inputs, paddings |-> paddings],
                num_groups |-> r.part.num_groups, group_size |-> r.part.group_size]

GroupNormLayer_FProp ==
  /\ layer = "GroupNormLayer"
  /\ \E inputs \in GNInputs(p.dim), paddings \in GNPaddings :
       GroupNormLayer_FProp_Effect(inputs, paddings,
                                   GroupNormLayer_FProp_Result(Theta, inputs, paddings))
  /\ UNCHANGED <<config, weights, moving, accumulators, hist, ntrain>>

InitGroupNormLayer ==
  /\ layer = "GroupNormLayer"
  /\ p \in GNParams
  /\ env = NoEnv
  /\ beta = Fill(<<1, 1, 1, p.dim>>, Rat(0)) /\ gamma = Fill(<<1, 1, 1, p.dim>>, Rat(0))
  /\ moving_mean = Absent /\ moving_variance = Absent
  /\ counts = Absent /\ mean_ss = Absent /\ variance_ss = Absent
  /\ hist = <<>> /\ ntrain = 0
  /\ call = NoCall

NextGroupNormLayer == GroupNormLayer_FProp \/ AssignWeights

SpecGroupNormLayer == InitGroupNormLayer /\ [][NextGroupNormLayer]_vars

(***************************************************************************)
(* The three layers.                                                       *)
(***************************************************************************)
InitLayers == InitBatchNormLayer \/ InitBatchNormLayerNoPadding \/ InitGroupNormLayer

NextLayers ==
  \/ BatchNormLayer_FProp
  \/ BatchNormLayerNoPadding_FProp
  \/ PostTrainingStepUpdate
  \/ GroupNormLayer_FProp
  \/ AssignWeights

SpecLayers == InitLayers /\ [][NextLayers]_vars

(***************************************************************************)
(* Reference moments: the plain mean and variance of the valid elements    *)
(* (padding 0) of a reduction slice, over the local input and, when the    *)
(* sums are pooled, the inputs of the other replicas.                      *)
(***************************************************************************)
Datasets(a) ==
  IF a.cross THEN <<[inputs |-> a.inputs, padding |-> a.padding]>> \o a.replicas
  ELSE <<[inputs |-> a.inputs, padding |-> a.padding]>>

ValidElements(a, j) ==
  {e \in UNION {{<<d, k>> : k \in Indices(Datasets(a)[d].inputs.shape)} :
                d \in 1..Len(Datasets(a))} :
     /\ OutIndexOf(e[2], a.reduce_over_dims, a.keepdims) = j
     /\ LET pad == Datasets(a)[e[1]].padding
        IN  AtB(pad, e[2]) = Rat(0)}

ElementValue(a, e) == At(Datasets(a)[e[1]].inputs, e[2])

RefMean(a, j) ==
  LET V == ValidElements(a, j)
  IN  RDiv(SumOver(V, [e \in V |-> ElementValue(a, e)]), Rat(Cardinality(V)))

RefVariance(a, j) ==
  LET V == ValidElements(a, j)
      m == RefMean(a, j)
  IN  RDiv(SumOver(V, [e \in V |-> RMul(RSub(ElementValue(a, e), m),
                                        RSub(ElementValue(a, e), m))]),
           Rat(Cardinality(V)))

OutIndices(a) ==
  {OutIndexOf(k, a.reduce_over_dims, a.keepdims) : k \in Indices(a.inputs.shape)}

MomentsCalled == call.op = "ComputeMomentsWithPadding"

(***************************************************************************)
(* Reference statistics of the micro-batches of a training step: the       *)
(* number of positions of an input, and per feature the sum, the mean and  *)
(* the mean squared deviation over all elements of all micro-batches.      *)
(***************************************************************************)
FeatureElements(h, c) ==
  UNION {{<<i, k>> : k \in {k \in Indices(h[i].shape) : k[Len(k)] = c}} : i \in 1..Len(h)}

FeatureSum(h, c, m, k) ==
  LET E == FeatureElements(h, c)
      d(e) == RSub(At(h[e[1]], e[2]), m)
  IN  SumOver(E, [e \in E |-> IF k = 1 THEN d(e) ELSE RMul(d(e), d(e))])

TotalCount(h) ==
  LET P == UNION {{<<i, SubSeq(k, 1, Len(k) - 1)>> : k \in Indices(h[i].shape)} : i \in 1..Len(h)}
  IN  Cardinality(P)

UnionMean(h, c) == RDiv(FeatureSum(h, c, Rat(0), 1), Rat(TotalCount(h)))

UnionVariance(h, c) ==
  LET m == UnionMean(h, c)
  IN  RDiv(FeatureSum(h, c, m, 2), Rat(TotalCount(h)))

IsNoPadding == layer = "BatchNormLayerNoPadding"

Committed == call.op = "PostTrainingStepUpdate"

(* C1: for BatchNormLayerNoPadding the counts accumulator is the sum of    *)
(* the element counts of the training FProp calls made since the last      *)
(* commit, mean_ss and variance_ss are the per-feature sums and sums of    *)
(* squares of those calls' inputs; all three are zero at construction and  *)
(* right after every commit.                                               *)
C1_AccumulatorsSumCalls ==
  IsNoPadding =>
    /\ counts = Scalar(Rat(TotalCount(hist)))
    /\ mean_ss.shape = <<p.dim>> /\ variance_ss.shape = <<p.dim>>
    /\ \A c \in 1..p.dim :
         /\ mean_ss.val[c] = FeatureSum(hist, c, Rat(0), 1)
         /\ variance_ss.val[c] = FeatureSum(hist, c, Rat(0), 2)
    /\ (call = NoCall \/ Committed) =>
         /\ hist = <<>>
         /\ counts = Scalar(Rat(0))
         /\ mean_ss = Fill(<<p.dim>>, Rat(0))
         /\ variance_ss = Fill(<<p.dim>>, Rat(0))

C1_Witness ==
  /\ IsNoPadding
  /\ Len(hist) = 2
  /\ hist[1] # hist[2]
  /\ counts = Scalar(Rat(3))

(* C2: a commit of BatchNormLayerNoPadding executed while the accumulated  *)
(* count is 0 leaves moving_mean and moving_variance unchanged.            *)
C2_EmptyCommitKeepsMoving ==
  [][(IsNoPadding /\ call'.op = "PostTrainingStepUpdate" /\ counts = Scalar(Rat(0)))
       => (moving_mean' = moving_mean /\ moving_variance' = moving_variance)]_vars

C2_Witness ==
  /\ IsNoPadding
  /\ Committed
  /\ call.args.counts = Scalar(Rat(0))
  /\ moving_mean # Fill(<<p.dim>>, Rat(0))

(* C3: a commit of BatchNormLayerNoPadding executed after at least one      *)
(* training FProp (accumulated count > 0.5) sets each moving statistic to  *)
(* moving - (moving - batch) * (1 - decay), batch being the mean and the    *)
(* variance of the union of all elements of the micro-batches of the step; *)
(* a training FProp itself changes no moving statistic.                    *)
C3_CommitMovesTowardsUnionMoments ==
  [][IsNoPadding =>
       /\ (call'.op = "PostTrainingStepUpdate" /\ RGreater(Head(counts.val), Frac(1, 2))) =>
            \A c \in 1..p.dim :
              /\ moving_mean'.val[c] =
                   RSub(moving_mean.val[c],
                        RMul(RSub(moving_mean.val[c], UnionMean(hist, c)),
                             RSub(Rat(1), p.decay)))
              /\ moving_variance'.val[c] =
                   RSub(moving_variance.val[c],
                        RMul(RSub(moving_variance.val[c], UnionVariance(hist, c)),
                             RSub(Rat(1), p.decay)))
       /\ (call'.op = "FProp" /\ ~call'.do_eval) =>
            (moving_mean' = moving_mean /\ moving_variance' = moving_variance)]_vars

C3_Witness ==
  /\ IsNoPadding
  /\ Committed
  /\ call.args.counts = Scalar(Rat(3))
  /\ call.mean = [shape |-> <<2>>, val |-> <<Rat(3), Rat(2)>>]
  /\ moving_mean = [shape |-> <<2>>, val |-> <<Frac(3, 10), Frac(2, 10)>>]

(***************************************************************************)
(* The value batch normalisation gives an element x of feature c: the      *)
(* symbolic (x - mean) * scale / sqrt(variance + epsilon) + offset.        *)
(***************************************************************************)
NormalizedValue(x, c, mean, variance, scale, offset, epsilon) ==
  [num |-> RMul(RSub(x, AtB(mean, <<c>>)), AtB(scale, <<c>>)),
   rad |-> RAdd(AtB(variance, <<c>>), epsilon),
   off |-> AtB(offset, <<c>>)]

IsBatchNorm == layer = "BatchNormLayer"

EvalCall == call.op = "FProp" /\ call.do_eval

TrainCall == call.op = "FProp" /\ ~call.do_eval

Pooled == env.use_tpu /\ p.enable_cross_replica_sum_on_tpu

BNCallArgs ==
  [inputs |-> call.args.inputs, padding |-> call.args.paddings,
   reduce_over_dims |-> LeadingAxes(call.args.paddings), keepdims |-> FALSE,
   cross |-> Pooled,
   replicas |-> OtherReplicas(Pooled, call.args.inputs, call.args.paddings)]

Last(s) == s[Len(s)]

(* C4: an eval-mode FProp of BatchNormLayer or BatchNormLayerNoPadding      *)
(* normalises with the stored moving_mean and moving_variance and changes  *)
(* neither the moving statistics nor the accumulators nor the weights; its *)
(* output is a function of the input and the stored state only.            *)
C4_EvalIsPure ==
  [][(call'.op = "FProp" /\ call'.do_eval) =>
       /\ UNCHANGED <<moving_mean, moving_variance, counts, mean_ss, variance_ss,
                      beta, gamma, hist, ntrain>>
       /\ LET x == call'.args.inputs
          IN  \A idx \in Indices(x.shape) :
                LET c == idx[Len(idx)]
                IN  IF IsBatchNorm
                    THEN /\ call'.ret.norm_mean = moving_mean
                         /\ call'.ret.norm_variance = moving_variance
                         /\ At(call'.ret.bn_output, idx) =
                              LET e == NormalizedValue(At(x, idx), c, moving_mean,
                                         moving_variance, call'.ret.gamma, call'.ret.beta,
                                         Epsilon)
                              IN  IF p.set_padded_output_to_zero
                                     /\ AtB(call'.args.paddings, idx) = Rat(1)
                                  THEN [num |-> Rat(0), rad |-> e.rad, off |-> Rat(0)]
                                  ELSE e
                    ELSE At(call'.ret, idx) =
                           NormalizedValue(At(x, idx), c, moving_mean, moving_variance,
                                           TAdd(Scalar(Rat(1)), gamma), beta, p.epsilon)]_vars

C4_Witness ==
  /\ IsNoPadding
  /\ EvalCall
  /\ counts # Scalar(Rat(0))
  /\ moving_mean # Fill(<<p.dim>>, Rat(0))
  /\ beta # Fill(<<p.dim>>, Rat(0))

RECURSIVE DecayFold(_, _, _)
DecayFold(start, batches, decay) ==
  IF batches = <<>> THEN start
  ELSE DecayFold(RAdd(RMul(decay, start), RMul(RSub(Rat(1), decay), Head(batches))),
                 Tail(batches), decay)

(* C5: BatchNormLayer in training with use_moving_avg_in_training = false   *)
(* normalises each call with the batch moments of that call, and after n   *)
(* training calls moving_mean and moving_variance are the n-fold           *)
(* application of moving = decay * moving + (1 - decay) * batch starting   *)
(* from mean 0 and variance 1.                                             *)
C5_DecayPerCall ==
  (IsBatchNorm /\ ~p.use_moving_avg_in_training) =>
    /\ Len(hist) = ntrain
    /\ \A c \in 1..p.dim :
         /\ moving_mean.val[c] =
              DecayFold(Rat(0), [i \in 1..Len(hist) |-> hist[i].mean.val[c]], p.decay)
         /\ moving_variance.val[c] =
              DecayFold(Rat(1), [i \in 1..Len(hist) |-> hist[i].variance.val[c]], p.decay)
    /\ TrainCall =>
         /\ call.ret.norm_mean = Last(hist).mean
         /\ call.ret.norm_variance = Last(hist).variance
         /\ \A c \in 1..p.dim :
              /\ Last(hist).mean.val[c] = RefMean(BNCallArgs, <<c>>)
              /\ Last(hist).variance.val[c] = RefVariance(BNCallArgs, <<c>>)

C5_Witness ==
  /\ IsBatchNorm
  /\ ~p.use_moving_avg_in_training
  /\ ~env.use_tpu
  /\ TrainCall
  /\ Len(hist) = 2
  /\ hist[1].mean.val = <<Rat(3), Rat(1)>>
  /\ hist[2].mean.val = <<Rat(2), Frac(9, 2)>>
  /\ moving_mean.val = <<Frac(47, 100), Frac(27, 50)>>

(* C6: BatchNormLayer in training with use_moving_avg_in_training = true    *)
(* normalises with the moving statistics, beta = 0 and gamma = 1, and the  *)
(* moving statistics it reads are those after the update made by the same  *)
(* call.                                                                   *)
C6_ReadsUpdatedMoving ==
  (IsBatchNorm /\ p.use_moving_avg_in_training /\ TrainCall) =>
    /\ call.ret.norm_mean = moving_mean
    /\ call.ret.norm_variance = moving_variance
    /\ call.ret.beta = Scalar(Rat(0))
    /\ call.ret.gamma = Scalar(Rat(1))

(* C7: with a 0/1 padding in which every reduction slice has at least one  *)
(* valid element, ComputeMomentsWithPadding returns the unweighted mean    *)
(* and variance of exactly the valid elements of each slice, whatever the  *)
(* shape of the mask (full, or of size 1 on reduced or kept axes).         *)
C7_MomentsOfValidElements ==
  (MomentsCalled /\ \A j \in OutIndices(call.args) : ValidElements(call.args, j) # {})
    => /\ call.ret.err = ""
       /\ \A j \in OutIndices(call.args) :
            /\ At(call.ret.mean, j) = RefMean(call.args, j)
            /\ At(call.ret.variance, j) = RefVariance(call.args, j)

C7_Witness ==
  /\ MomentsCalled
  /\ \A j \in OutIndices(call.args) : ValidElements(call.args, j) # {}
  /\ call.args.reduce_over_dims = {0, 1}
  /\ call.args.inputs.shape = <<2, 2>>
  /\ call.args.padding.shape = <<2, 1>>
  /\ At(call.args.padding, <<1, 1>>) = Rat(0)
  /\ At(call.args.padding, <<2, 1>>) = Rat(1)
  /\ ~call.args.cross
  /\ At(call.ret.variance, <<1, 1>>) # Rat(0)

(* C8: when every element of a reduction slice is padded, the call raises  *)
(* no error, the count of the slice is floored at 1 and the mean and the   *)
(* variance returned for the slice are both 0.                             *)
C8_FullyPaddedSlice ==
  MomentsCalled =>
    /\ call.ret.err = ""
    /\ \A j \in OutIndices(call.args) :
         ValidElements(call.args, j) = {} =>
           /\ AtB(call.ret.count_v, j) = Rat(1)
           /\ At(call.ret.mean, j) = Rat(0)
           /\ At(call.ret.variance, j) = Rat(0)

C8_Witness ==
  /\ MomentsCalled
  /\ call.args.reduce_over_dims = {0}
  /\ call.args.inputs.shape = <<2, 2>>
  /\ call.args.padding.shape = <<2, 2>>
  /\ ValidElements(call.args, <<1, 1>>) = {}
  /\ ValidElements(call.args, <<1, 2>>) # {}
  /\ call.args.keepdims
  /\ At(call.ret.mean, <<1, 1>>) = Rat(0)
  /\ At(call.ret.mean, <<1, 2>>) # Rat(0)

(* C9: with set_padded_output_to_zero, BatchNormLayer.FProp returns exactly *)
(* 0 at every position whose padding is 1, in training and in eval and for *)
(* any beta and gamma, and the normalised value at every other position;   *)
(* the batch statistics used in training are those of the non-padded rows. *)
C9_PaddedOutputIsZero ==
  (IsBatchNorm /\ call.op = "FProp" /\ p.set_padded_output_to_zero) =>
    /\ \A idx \in Indices(call.args.inputs.shape) :
         IF AtB(call.args.paddings, idx) = Rat(1)
         THEN IsZeroOutput(At(call.ret.bn_output, idx))
         ELSE At(call.ret.bn_output, idx) =
                NormalizedValue(At(call.args.inputs, idx), idx[Len(idx)], call.ret.norm_mean,
                                call.ret.norm_variance, call.ret.gamma, call.ret.beta, Epsilon)
    /\ (TrainCall /\ ~p.use_moving_avg_in_training) =>
         \A c \in 1..p.dim :
           /\ call.ret.norm_mean.val[c] = RefMean(BNCallArgs, <<c>>)
           /\ call.ret.norm_variance.val[c] = RefVariance(BNCallArgs, <<c>>)

C9_Witness ==
  /\ IsBatchNorm
  /\ TrainCall
  /\ p.set_padded_output_to_zero
  /\ ~p.use_moving_avg_in_training
  /\ beta # Fill(<<p.dim>>, Rat(0))
  /\ call.args.inputs.shape = <<3, 2>>
  /\ At(call.args.paddings, <<1, 1>>) = Rat(1)
  /\ IsZeroOutput(At(call.ret.bn_output, <<1, 2>>))
  /\ ~IsZeroOutput(At(call.ret.bn_output, <<2, 2>>))
  /\ call.ret.norm_mean.val = <<Rat(2), Frac(9, 2)>>

(* C10: for every GroupNormLayer configuration accepted by the constructor *)
(* the num_groups and group_size derived in FProp satisfy                  *)
(* num_groups * group_size = dim.                                          *)
C10_PartitionCoversDim ==
  (layer = "GroupNormLayer" /\ call.op = "FProp") =>
    call.num_groups * call.group_size = p.dim

(***************************************************************************)
(* Pooling of BatchNormLayerNoPadding on TPU.  PoolingGroups are the       *)
(* groups of replica indices whose statistics tf.tpu.cross_replica_sum     *)
(* adds: the group assignment built by _Moments, or, when _Moments built   *)
(* none (group_assignment = None), one group holding every replica.        *)
(***************************************************************************)
GroupedTrainCall ==
  /\ IsNoPadding
  /\ call.op = "FProp" /\ ~call.do_eval
  /\ env.use_tpu /\ p.bn_group_size > 1

PoolingGroups ==
  IF call.m.group_assignment # <<>> THEN call.m.group_assignment
  ELSE <<[i \in 1..env.num_replicas |-> i - 1]>>

(* C11: with bn_group_size > 1 on TPU a training FProp of                   *)
(* BatchNormLayerNoPadding fails when the number of replicas is smaller    *)
(* than bn_group_size or not a multiple of it; otherwise the groups pooled *)
(* are replicas / bn_group_size groups of exactly bn_group_size            *)
(* consecutive replica indices and every replica index lies in exactly one *)
(* group.                                                                  *)
C11_GroupsPartitionReplicas ==
  GroupedTrainCall =>
    IF env.num_replicas < p.bn_group_size \/ env.num_replicas % p.bn_group_size # 0
    THEN IsValueError(call.err)
    ELSE /\ call.err = ""
         /\ Len(PoolingGroups) = env.num_replicas \div p.bn_group_size
         /\ \A k \in 1..Len(PoolingGroups) :
              /\ Len(PoolingGroups[k]) = p.bn_group_size
              /\ \A i \in 1..(Len(PoolingGroups[k]) - 1) :
                   PoolingGroups[k][i + 1] = PoolingGroups[k][i] + 1
         /\ \A r \in 0..(env.num_replicas - 1) :
              Cardinality({k \in 1..Len(PoolingGroups) :
                             \E i \in 1..Len(PoolingGroups[k]) : PoolingGroups[k][i] = r}) = 1

(* C12: a training FProp of BatchNormLayerNoPadding that fails because the *)
(* replica count is smaller than bn_group_size or not a multiple of it     *)
(* leaves the three accumulators and the moving statistics as they were    *)
(* before the call.                                                        *)
C12_FailedCallChangesNothing ==
  [][(IsNoPadding /\ call'.op = "FProp" /\ ~call'.do_eval /\ IsValueError(call'.err))
       => /\ counts' = counts
          /\ mean_ss' = mean_ss
          /\ variance_ss' = variance_ss
          /\ moving_mean' = moving_mean
          /\ moving_variance' = moving_variance]_vars

(***************************************************************************)
(* The affine transform of a successful FProp of a layer with learned beta *)
(* and gamma, read off the returned tensor: element idx of feature c is    *)
(* (x - mean) * scale / sqrt(variance + epsilon) + shift.  MeanUsed is the *)
(* mean the call normalised with; padded positions of BatchNormLayer,      *)
(* which are set to zero, are left out.                                    *)
(***************************************************************************)
AffineCall ==
  /\ call.op = "FProp"
  /\ HasAffine
  /\ IF IsBatchNorm THEN TRUE ELSE call.err = ""

Output == IF IsBatchNorm THEN call.ret.bn_output ELSE call.ret

MeanUsed(idx) ==
  IF IsBatchNorm THEN AtB(call.ret.norm_mean, <<idx[Len(idx)]>>)
  ELSE IF IsNoPadding
  THEN (IF call.do_eval THEN moving_mean.val[idx[Len(idx)]]
        ELSE call.m.mean.val[idx[Len(idx)]])
  ELSE At(call.norm_mean, <<idx[1], 1, 1, ((idx[4] - 1) \div call.group_size) + 1, 1>>)

Unpadded(idx) ==
  IF IsBatchNorm /\ p.set_padded_output_to_zero
  THEN AtB(call.args.paddings, idx) = Rat(0)
  ELSE TRUE

ScaleAndShiftAre(scale, shift) ==
  \A idx \in Indices(call.args.inputs.shape) :
    Unpadded(idx) =>
      /\ At(Output, idx).num =
           RMul(RSub(At(call.args.inputs, idx), MeanUsed(idx)), scale[idx[Len(idx)]])
      /\ At(Output, idx).off = shift[idx[Len(idx)]]

OnePlus(g) == [c \in 1..Len(g) |-> RAdd(Rat(1), g[c])]

(* C13 as stated: in every layer and configuration with learned affine     *)
(* parameters, BatchNormLayer with gamma_zero_init included, the scale     *)
(* applied to the normalised value is 1 + the stored gamma and the shift   *)
(* is the stored beta, so that a fresh layer applies scale 1 and shift 0.  *)
C13_ScaleIsOnePlusGamma ==
  AffineCall => ScaleAndShiftAre(OnePlus(gamma.val), beta.val)

(* C13, amended: the scale applied is 1 + the stored gamma in              *)
(* BatchNormLayerNoPadding, in GroupNormLayer and in BatchNormLayer without *)
(* gamma_zero_init; BatchNormLayer with gamma_zero_init applies the stored *)
(* gamma itself, so that a fresh layer of that configuration applies scale *)
(* 0.  The shift is the stored beta in all of them.                        *)
C13_ScaleIsOnePlusGammaUnlessZeroInit ==
  AffineCall =>
    IF IsBatchNorm /\ p.gamma_zero_init
    THEN ScaleAndShiftAre(gamma.val, beta.val)
    ELSE ScaleAndShiftAre(OnePlus(gamma.val), beta.val)

C13_Witness ==
  /\ IsBatchNorm
  /\ p.gamma_zero_init
  /\ call.op = "FProp" /\ ~call.do_eval
  /\ gamma = Fill(<<p.dim>>, Rat(0)) /\ beta = Fill(<<p.dim>>, Rat(0))
  /\ call.args.inputs.shape = <<2, 2>>
  /\ At(call.args.inputs, <<1, 1>>) # AtB(call.ret.norm_mean, <<1>>)
  /\ At(call.ret.bn_output, <<1, 1>>).num = Rat(0)

LocalCount(x) == x.shape[1] * x.shape[2] * x.shape[3]

(* C14: in a training FProp of BatchNormLayerNoPadding on TPU with         *)
(* bn_group_size > 1, whenever mean_ss and variance_ss are pooled by the   *)
(* cross-replica sum, the count the mean and the variance are derived with *)
(* is the local count times the number of replicas whose statistics were   *)
(* summed, with a known shard count and with an unknown one.               *)
C14_CountMatchesPooledReplicas ==
  (GroupedTrainCall /\ call.err = "") =>
    call.m.counts = Scalar(Rat(LocalCount(call.args.inputs) * call.m.summed))

====
